---------------------------- MODULE Spec2Model ----------------------------
(***************************************************************************)
(* Model of the gravity simulation of src/main.py: the Settings globals,   *)
(* the Body objects, calculate_force, Body.update, compute_barycenter,     *)
(* start() and the per-frame update().                                     *)
(*                                                                         *)
(* Numbers.  Python floats are modelled as fixed-point numbers: the        *)
(* integer n stands for the real n / Scale.  Every product and quotient is *)
(* rounded to the nearest representable value, halves away from zero, so   *)
(* rounding is sign-symmetric as IEEE rounding is.                         *)
(*                                                                         *)
(* pg_extensions (Vector2, runge_kutta_4, clamp, the window and the input  *)
(* manager) is imported by main.py and is not part of src/: its operators  *)
(* are modelled from the specification.                                    *)
(*                                                                         *)
(* Drawing (Body.render, the grid, update_ui) reads the state and writes   *)
(* none of it, and is left out.                                            *)
(***************************************************************************)
EXTENDS Integers, Sequences, FiniteSets

VARIABLES
    G,                \* Settings.G
    PAUSED,           \* Settings.PAUSED
    DEBUG,            \* Settings.DEBUG
    SHOW_NAMES,       \* Settings.SHOW_NAMES
    camera_position,  \* Settings.camera_position
    zoom,             \* Settings.zoom
    bodies,           \* the global list of Body objects
    elapsed_time,     \* global elapsed_time
    current_frame,    \* global current_frame
    delta_time,       \* window.delta_time of the frame that ran last
    barycenter,       \* the barycenter update() computed last
    running,          \* window.running
    frames,           \* history: calls of update() so far
    integrations,     \* history: frames in which the bodies were integrated
    integrated_time,  \* history: sum of delta_time over those frames
    probe             \* results of the pure-function specifications

vars == <<G, PAUSED, DEBUG, SHOW_NAMES, camera_position, zoom, bodies,
          elapsed_time, current_frame, delta_time, barycenter, running,
          frames, integrations, integrated_time, probe>>

---------------------------------------------------------------------------
(* Bounds of the model. *)

\* fixed-point resolution: n stands for n / Scale
Scale == 1000

\* update() runs at most MaxFrames times
MaxFrames == 2

---------------------------------------------------------------------------
(* Fixed-point arithmetic. *)

Abs(a) == IF a < 0 THEN -a ELSE a

Sgn(a) == IF a < 0 THEN -1 ELSE IF a > 0 THEN 1 ELSE 0

Max2(a, b) == IF a >= b THEN a ELSE b

Min2(a, b) == IF a <= b THEN a ELSE b

\* a / b of two integers, rounded to nearest, halves away from zero
RDiv(a, b) == Sgn(a) * Sgn(b) * ((2 * Abs(a) + Abs(b)) \div (2 * Abs(b)))

\* |a| * |b| / Scale rounded, with the larger factor split so that no
\* intermediate product leaves the 32-bit range
MulAbs(big, small) ==
    (big \div Scale) * small + ((big % Scale) * small + Scale \div 2) \div Scale

\* float * float
FMul(a, b) ==
    Sgn(a) * Sgn(b) * MulAbs(Max2(Abs(a), Abs(b)), Min2(Abs(a), Abs(b)))

\* |a| * Scale / |b| rounded, b > 0; the remainder and the divisor are scaled
\* down together when the remainder is too large to be multiplied by Scale
DivAbs(a, b) ==
    LET q == a \div b
        r == a % b
        k == (r \div 1000000) + 1
        rk == r \div k
        bk == b \div k
    IN  q * Scale + (rk * Scale + bk \div 2) \div bk

\* float / float, b # 0
FDiv(a, b) == Sgn(a) * Sgn(b) * DivAbs(Abs(a), Abs(b))

\* the fixed-point number of the integer n
Num(n) == n * Scale

\* floor of the square root of n >= 0, by bisection on [lo, hi)
RECURSIVE SqrtBetween(_, _, _)
SqrtBetween(n, lo, hi) ==
    IF hi - lo <= 1 THEN lo
    ELSE LET mid == (lo + hi) \div 2
         IN  IF mid * mid <= n THEN SqrtBetween(n, mid, hi)
             ELSE SqrtBetween(n, lo, mid)

ISqrt(n) == SqrtBetween(n, 0, 46341)

---------------------------------------------------------------------------
(* Vector2 of pg_extensions. *)

Vector2(x, y) == [x |-> x, y |-> y]

VZero == Vector2(0, 0)

VAdd(a, b) == Vector2(a.x + b.x, a.y + b.y)

VSub(a, b) == Vector2(a.x - b.x, a.y - b.y)

\* vector * scalar
VMul(a, s) == Vector2(FMul(a.x, s), FMul(a.y, s))

\* vector / scalar, s # 0
VDiv(a, s) == Vector2(FDiv(a.x, s), FDiv(a.y, s))

\* x*x + y*y
sqr_magnitude(a) == FMul(a.x, a.x) + FMul(a.y, a.y)

\* sqrt(x*x + y*y); large vectors are scaled down before squaring, which
\* keeps the relative precision a float has
magnitude(a) ==
    LET m == Max2(Abs(a.x), Abs(a.y))
        k == (m \div 32768) + 1
        px == Abs(a.x) \div k
        py == Abs(a.y) \div k
    IN  k * ISqrt(px * px + py * py)

\* a / |a|, a # 0
normalize(a) == VDiv(a, magnitude(a))

\* Vector2.random_polar(0, tau, 50, 200): any direction, 50 <= radius < 200.
\* The model draws from three representatives: both ends of the radius range,
\* axis-aligned and oblique directions.
random_polar_50_200 ==
    { Vector2(Num(50), 0), Vector2(-Num(60), Num(80)),
      Vector2(0, -(Num(200) - 1)) }

\* clamp(v, lo, hi)
clamp(v, lo, hi) == Max2(lo, Min2(v, hi))

\* runge_kutta_4(position, velocity, acceleration, dt) with the
\* acceleration held constant over the four stages
runge_kutta_4(position, velocity, acceleration, dt) ==
    LET k1_v == VMul(velocity, dt)
        k1_a == VMul(acceleration, dt)
        k2_v == VMul(VAdd(velocity, Vector2(RDiv(k1_a.x, 2), RDiv(k1_a.y, 2))), dt)
        k2_a == VMul(acceleration, dt)
        k3_v == VMul(VAdd(velocity, Vector2(RDiv(k2_a.x, 2), RDiv(k2_a.y, 2))), dt)
        k3_a == VMul(acceleration, dt)
        k4_v == VMul(VAdd(velocity, k3_a), dt)
        k4_a == VMul(acceleration, dt)
        sum_v == Vector2(k1_v.x + 2 * k2_v.x + 2 * k3_v.x + k4_v.x,
                         k1_v.y + 2 * k2_v.y + 2 * k3_v.y + k4_v.y)
        sum_a == Vector2(k1_a.x + 2 * k2_a.x + 2 * k3_a.x + k4_a.x,
                         k1_a.y + 2 * k2_a.y + 2 * k3_a.y + k4_a.y)
    IN  [position |-> VAdd(position, Vector2(RDiv(sum_v.x, 6), RDiv(sum_v.y, 6))),
         velocity |-> VAdd(velocity, Vector2(RDiv(sum_a.x, 6), RDiv(sum_a.y, 6)))]

---------------------------------------------------------------------------
(* class Body *)

\* Body.__init__: total_force starts as Vector2(); the acceleration
\* attribute is first written by update() and is modelled as zero until then
Body(name, position, velocity, radius, mass, color, width) ==
    [name |-> name, position |-> position, velocity |-> velocity,
     radius |-> radius, mass |-> mass, color |-> color, width |-> width,
     total_force |-> VZero, acceleration |-> VZero]

\* line 45 divides by delta.sqr_magnitude(): ZeroDivisionError when the
\* squared length rounds to zero while the length does not
calculate_force_raises(self, other) ==
    LET delta == VSub(other.position, self.position)
    IN  magnitude(delta) # 0 /\ sqr_magnitude(delta) = 0

\* calculate_force without the factor G in the force
calculate_force_noG(self, other) ==
    LET delta == VSub(other.position, self.position)
    IN  IF magnitude(delta) # 0
        THEN LET dir == normalize(delta)
                 force == FDiv(FMul(self.mass, other.mass), sqr_magnitude(delta))
             IN  {VMul(dir, force)}
        ELSE random_polar_50_200

\* calculate_force with delta taken from other to self
calculate_force_reversed(self, other) ==
    LET delta == VSub(self.position, other.position)
    IN  IF magnitude(delta) # 0
        THEN LET dir == normalize(delta)
                 force == FDiv(FMul(FMul(G, self.mass), other.mass),
                               sqr_magnitude(delta))
             IN  {VMul(dir, force)}
        ELSE random_polar_50_200

\* calculate_force returning no force for coincident bodies
calculate_force_noLaunch(self, other) ==
    LET delta == VSub(other.position, self.position)
    IN  IF magnitude(delta) # 0
        THEN LET dir == normalize(delta)
                 force == FDiv(FMul(FMul(G, self.mass), other.mass),
                               sqr_magnitude(delta))
             IN  {VMul(dir, force)}
        ELSE {VZero}

\* Body.calculate_force: the set of vectors a call can return (one vector,
\* or any draw of random_polar when the positions coincide)
calculate_force(self, other) ==
    LET delta == VSub(other.position, self.position)
    IN  IF magnitude(delta) # 0
        THEN LET dir == normalize(delta)
                 force == FDiv(FMul(FMul(G, self.mass), other.mass),
                               sqr_magnitude(delta))
             IN  {VMul(dir, force)}
        ELSE random_polar_50_200

\* self == other comparing the attributes of the two entries
SameBody_byValue(bs, i, j) == bs[i] = bs[j]

\* line 55, self == other: Body defines no __eq__, so two entries of the
\* list are equal only when they are the same object, the same entry
SameBody(bs, i, j) == i = j

\* lines 53-58: the values total_force can have after the loop over the
\* entries j, j+1, ... of the list, acc being the sum so far
RECURSIVE ForceSweep(_, _, _, _)
ForceSweep(bs, i, j, acc) ==
    IF j > Len(bs) THEN {acc}
    ELSE IF SameBody(bs, i, j) THEN ForceSweep(bs, i, j + 1, acc)
    ELSE UNION { ForceSweep(bs, i, j + 1, VAdd(acc, f)) :
                 f \in calculate_force(bs[i], bs[j]) }

\* the integration with the force taken for the acceleration
Integrate_noMass(self, total_force, dt) ==
    LET acceleration == total_force
        rk == runge_kutta_4(self.position, self.velocity, acceleration, dt)
    IN  [self EXCEPT !.total_force = total_force,
                     !.acceleration = acceleration,
                     !.position = rk.position,
                     !.velocity = rk.velocity]

\* the integration building a new Body from the name and the new kinematics,
\* the other attributes taking the defaults of Body.__init__
Integrate_rebuild(self, total_force, dt) ==
    LET acceleration == VDiv(total_force, self.mass)
        rk == runge_kutta_4(self.position, self.velocity, acceleration, dt)
    IN  [Body(self.name, rk.position, rk.velocity, 25, Num(1),
              <<255, 255, 255>>, 0)
         EXCEPT !.total_force = total_force, !.acceleration = acceleration]

\* lines 60-63: the body with the force total_force integrated over dt
Integrate(self, total_force, dt) ==
    LET acceleration == VDiv(total_force, self.mass)
        rk == runge_kutta_4(self.position, self.velocity, acceleration, dt)
    IN  [self EXCEPT !.total_force = total_force,
                     !.acceleration = acceleration,
                     !.position = rk.position,
                     !.velocity = rk.velocity]

\* Body.update without the test of Settings.PAUSED
Body_update_unpaused(bs, i, paused, dt) ==
    { [bs EXCEPT ![i] = Integrate(bs[i], tf, dt)] :
      tf \in ForceSweep(bs, i, 1, VZero) }

\* Body.update of entry i, paused being Settings.PAUSED at the call and dt
\* window.delta_time: the lists it can leave (render draws and writes nothing)
Body_update(bs, i, paused, dt) ==
    IF ~paused
    THEN { [bs EXCEPT ![i] = Integrate(bs[i], tf, dt)] :
           tf \in ForceSweep(bs, i, 1, VZero) }
    ELSE {bs}

\* lines 389-390: for body in bodies: body.update(bodies, barycenter),
\* from entry i on
RECURSIVE UpdateBodies(_, _, _, _)
UpdateBodies(bs, i, paused, dt) ==
    IF i > Len(bs) THEN {bs}
    ELSE UNION { UpdateBodies(b2, i + 1, paused, dt) :
                 b2 \in Body_update(bs, i, paused, dt) }

---------------------------------------------------------------------------
(* compute_barycenter *)

\* a returned value, or the ZeroDivisionError a division by zero raises
Return(v) == [raised |-> FALSE, value |-> v]

ZeroDivisionError == [raised |-> TRUE, value |-> VZero]

\* Vector2 / scalar as Python evaluates it
VTrueDiv(a, s) == IF s = 0 THEN ZeroDivisionError ELSE Return(VDiv(a, s))

\* sum(body.mass for body in bodies)
RECURSIVE SumMass(_)
SumMass(bs) == IF bs = <<>> THEN 0 ELSE Head(bs).mass + SumMass(Tail(bs))

\* sum((body.position * body.mass for body in bodies), Vector2())
RECURSIVE SumPositionMass(_)
SumPositionMass(bs) ==
    IF bs = <<>> THEN VZero
    ELSE VAdd(VMul(bs[Len(bs)].position, bs[Len(bs)].mass),
              SumPositionMass(SubSeq(bs, 1, Len(bs) - 1)))

\* compute_barycenter without the test of the total mass
compute_barycenter_unguarded(bs) ==
    VTrueDiv(SumPositionMass(bs), SumMass(bs))

\* compute_barycenter
compute_barycenter(bs) ==
    LET total_mass == SumMass(bs)
    IN  IF total_mass = 0 THEN Return(VZero)
        ELSE VTrueDiv(SumPositionMass(bs), total_mass)

---------------------------------------------------------------------------
(* start(): the configurations the model loads from config.json *)

\* bodies_info entries: name, position, velocity, radius, mass, color, width
BodyPool ==
    { Body("A", Vector2(0, 0), Vector2(0, 0), 25, Num(1), <<255, 0, 0>>, 0),
      Body("B", Vector2(Num(1), 0), Vector2(0, 0), 10, Num(2), <<0, 255, 0>>, 0),
      Body("C", Vector2(-Num(2), Num(4)), Vector2(Num(2), -Num(1)), 5, Num(3),
           <<0, 0, 255>>, 2) }

\* the body lists: every list of at most two pool bodies (a body may occur
\* twice: two distinct objects with identical attributes), and the lists of
\* three that hold such a pair
Configs ==
    {<<>>} \cup { <<a>> : a \in BodyPool }
           \cup { <<a, b>> : a \in BodyPool, b \in BodyPool }
           \cup UNION { { <<a, a, b>> : b \in BodyPool \ {a} } : a \in BodyPool }

\* settings_info["G"]
GValues == {0, Num(10)}

\* the state no specification of the module writes
Idle ==
    [done |-> FALSE, ab |-> VZero, ba |-> VZero, bary |-> Return(VZero)]

\* start(): the modelled configurations set debug_mode and show_names false;
\* the keys 1 and 2 reach the other values
Init ==
    /\ elapsed_time = 0
    /\ current_frame = 0
    /\ G \in GValues
    /\ PAUSED \in BOOLEAN
    /\ DEBUG = FALSE
    /\ SHOW_NAMES = FALSE
    /\ bodies \in Configs
    /\ camera_position = VZero
    /\ zoom = Num(1)
    /\ delta_time = 0
    /\ barycenter = VZero
    /\ running = TRUE
    /\ frames = 0
    /\ integrations = 0
    /\ integrated_time = 0
    /\ probe = Idle

---------------------------------------------------------------------------
(* update(): one frame *)

\* window.delta_time: the frame times the clock can supply
DeltaTimes == {Scale \div 10, Scale \div 4}

NoInput ==
    [escape |-> FALSE, space |-> FALSE, key1 |-> FALSE, key2 |-> FALSE,
     mouse_held |-> FALSE, mouse_motion |-> VZero,
     equals |-> FALSE, minus |-> FALSE, wheel |-> 0]

\* what the input manager can report in a frame
Inputs ==
    { NoInput,
      [NoInput EXCEPT !.space = TRUE, !.equals = TRUE, !.minus = TRUE,
                      !.wheel = -1],
      [NoInput EXCEPT !.key1 = TRUE, !.equals = TRUE, !.mouse_held = TRUE,
                      !.mouse_motion = Vector2(Num(3), Num(2)), !.wheel = 1],
      [NoInput EXCEPT !.escape = TRUE, !.key2 = TRUE, !.minus = TRUE] }

\* lines 285-292: the zoom after the keys, the wheel and the clamp
ZoomAfter(z, inp) ==
    LET z1 == IF inp.equals /\ ~inp.minus THEN z + FDiv(z, Num(50)) ELSE z
        z2 == IF ~inp.equals /\ inp.minus THEN z1 - FDiv(z1, Num(50)) ELSE z1
        z3 == z2 + FMul(FDiv(z2, Num(10)), Num(inp.wheel))
    IN  clamp(z3, Scale \div 20, Num(10))

\* lines 280-284: the camera after a drag
CameraAfter(c, inp) ==
    IF inp.mouse_held
    THEN Vector2(c.x + inp.mouse_motion.x, c.y - inp.mouse_motion.y)
    ELSE c

\* line 275: the pause flag after the key
PausedAfter(p, space) == IF space THEN ~p ELSE p

\* the flag Body.update reads: Settings.PAUSED as update() left it
PausedAtUpdate(p, space) == PausedAfter(p, space)

Frame ==
    /\ running
    /\ frames < MaxFrames
    /\ \E dt \in DeltaTimes, space \in BOOLEAN :
        \E bs \in UpdateBodies(bodies, 1, PausedAtUpdate(PAUSED, space), dt) :
        \E inp \in { i \in Inputs : i.space = space } :
          /\ delta_time' = dt
          /\ elapsed_time' = IF ~PAUSED THEN elapsed_time + dt ELSE elapsed_time
          /\ current_frame' = IF ~PAUSED THEN current_frame + 1 ELSE current_frame
          /\ running' = IF inp.escape THEN FALSE ELSE running
          /\ PAUSED' = PausedAfter(PAUSED, inp.space)
          /\ DEBUG' = IF inp.key1 THEN ~DEBUG ELSE DEBUG
          /\ SHOW_NAMES' = IF inp.key2 THEN ~SHOW_NAMES ELSE SHOW_NAMES
          /\ camera_position' = CameraAfter(camera_position, inp)
          /\ zoom' = ZoomAfter(zoom, inp)
          /\ barycenter' = compute_barycenter(bodies).value
          /\ bodies' = bs
          /\ frames' = frames + 1
          /\ integrations' = IF ~PausedAtUpdate(PAUSED, inp.space)
                             THEN integrations + 1 ELSE integrations
          /\ integrated_time' = IF ~PausedAtUpdate(PAUSED, inp.space)
                                THEN integrated_time + dt ELSE integrated_time
          /\ UNCHANGED <<G, probe>>

Next == Frame

Spec == Init /\ [][Next]_vars

---------------------------------------------------------------------------
(* calculate_force and compute_barycenter on their own: the initial state  *)
(* draws the arguments, the action applies the function.                   *)

\* coordinates of the drawn positions lie in -MaxCoord .. MaxCoord
MaxCoord == 2

\* compute_barycenter is applied to lists of at most MaxDrawn bodies
MaxDrawn == 2

\* G and the masses of the drawn bodies: negative, zero (G), fractional,
\* large.  Nonzero values are at least 1 in magnitude, which keeps every force
\* between grid positions well above the fixed-point resolution.
ForceG == {-Num(1), 0, Num(1), Num(10)}

ForceMasses == {-Num(2), Num(1), Num(1) + Scale \div 2, Num(3)}

BaryMasses == {-Num(1), 0, Num(1), Num(2)}

Drawn(position, mass) ==
    Body("BODY", position, VZero, 25, mass, <<255, 255, 255>>, 0)

InitDrawn ==
    /\ elapsed_time = 0
    /\ current_frame = 0
    /\ PAUSED = FALSE
    /\ DEBUG = FALSE
    /\ SHOW_NAMES = FALSE
    /\ camera_position = VZero
    /\ zoom = Num(1)
    /\ delta_time = 0
    /\ barycenter = VZero
    /\ running = TRUE
    /\ frames = 0
    /\ integrations = 0
    /\ integrated_time = 0
    /\ probe = Idle

InitForce ==
    /\ InitDrawn
    /\ G \in ForceG
    /\ \E ax \in 0..MaxCoord, ay \in 0..MaxCoord,
          bx \in -MaxCoord..MaxCoord, by \in -MaxCoord..MaxCoord,
          ma \in ForceMasses, mb \in ForceMasses :
          bodies = << Drawn(Vector2(Num(ax), Num(ay)), ma),
                      Drawn(Vector2(Num(bx), Num(by)), mb) >>

\* A.calculate_force(B) and B.calculate_force(A)
ApplyForce ==
    /\ ~probe.done
    /\ \E fab \in calculate_force(bodies[1], bodies[2]),
          fba \in calculate_force(bodies[2], bodies[1]) :
          probe' = [probe EXCEPT !.done = TRUE, !.ab = fab, !.ba = fba]
    /\ UNCHANGED <<G, PAUSED, DEBUG, SHOW_NAMES, camera_position, zoom, bodies,
                   elapsed_time, current_frame, delta_time, barycenter,
                   running, frames, integrations, integrated_time>>

NextForce == ApplyForce

SpecForce == InitForce /\ [][NextForce]_vars

InitBarycenter ==
    /\ InitDrawn
    /\ G = 0
    /\ \E n \in 0..MaxDrawn :
          bodies \in [1..n -> { Drawn(Vector2(Num(x), Num(y)), m) :
                                x \in -MaxCoord..MaxCoord, y \in 0..1,
                                m \in BaryMasses }]

\* compute_barycenter(bodies)
ApplyBarycenter ==
    /\ ~probe.done
    /\ probe' = [probe EXCEPT !.done = TRUE, !.bary = compute_barycenter(bodies)]
    /\ UNCHANGED <<G, PAUSED, DEBUG, SHOW_NAMES, camera_position, zoom, bodies,
                   elapsed_time, current_frame, delta_time, barycenter,
                   running, frames, integrations, integrated_time>>

NextBarycenter == ApplyBarycenter

SpecBarycenter == InitBarycenter /\ [][NextBarycenter]_vars

---------------------------------------------------------------------------
(* Properties. *)

\* the step is a frame in which Body.update integrated the bodies
IntegratingFrame == frames' = frames + 1 /\ ~PAUSED'

\* the step is a frame in which Body.update found the pause flag set
PausedFrame == frames' = frames + 1 /\ PAUSED'

Others(bs, i) == (1..Len(bs)) \ {i}

\* the sums of one force per entry of S exerted on entry i of bs
RECURSIVE ForceSums(_, _, _)
ForceSums(bs, i, S) ==
    IF S = {} THEN {VZero}
    ELSE LET j == CHOOSE k \in S : TRUE
         IN  { VAdd(s, f) : s \in ForceSums(bs, i, S \ {j}),
                            f \in calculate_force(bs[i], bs[j]) }

\* the list as entry i finds it in the sweep of the step: the entries before
\* i have been updated, the others have not
SeenBy(i) == [j \in 1..Len(bodies) |-> IF j < i THEN bodies'[j] ELSE bodies[j]]

Near(a, b) == Abs(a - b) <= 2

VNear(a, b) == Near(a.x, b.x) /\ Near(a.y, b.y)

\* C1: in an unpaused frame every body's total_force is a sum of the forces
\* computed from the positions all bodies had when the frame began.
C1_ForcesFromFrameStart ==
    [][IntegratingFrame =>
         \A i \in 1..Len(bodies) :
            bodies'[i].total_force \in ForceSums(bodies, i, Others(bodies, i))]_vars

\* C2: a frame that finds the pause flag set when the bodies are updated
\* leaves every body's position, velocity and total_force as they were.
C2_PausedFrameKeepsBodies ==
    [][PausedFrame =>
         /\ Len(bodies') = Len(bodies)
         /\ \A i \in 1..Len(bodies) :
               /\ bodies'[i].position = bodies[i].position
               /\ bodies'[i].velocity = bodies[i].velocity
               /\ bodies'[i].total_force = bodies[i].total_force]_vars

\* a paused frame has run over bodies that an integration would have moved
C2_Witness ==
    /\ PAUSED
    /\ frames > integrations
    /\ G # 0
    /\ Len(bodies) >= 2
    /\ \E i \in 1..Len(bodies) : bodies[i].velocity # VZero

\* C3 as stated: with G = 0 every pairwise force is zero, coincident
\* positions included, and after an unpaused frame every total_force is zero.
C3_ZeroG_AllForcesZero ==
    G = 0 =>
       /\ \A i \in 1..Len(bodies) : \A j \in Others(bodies, i) :
             calculate_force(bodies[i], bodies[j]) = {VZero}
       /\ (frames > 0 /\ ~PAUSED) =>
             \A i \in 1..Len(bodies) : bodies[i].total_force = VZero

\* C3 amended: with G = 0 the force between two bodies at different
\* positions is zero whatever their masses, and after an unpaused frame the
\* total_force of a body is zero when no other body was at its position when
\* its forces were summed.
C3_ZeroG_ForcesZeroUnlessCoincident ==
    /\ [](G = 0 =>
            \A i \in 1..Len(bodies) : \A j \in Others(bodies, i) :
               bodies[i].position # bodies[j].position =>
                  calculate_force(bodies[i], bodies[j]) = {VZero})
    /\ [][(G = 0 /\ IntegratingFrame) =>
            \A i \in 1..Len(bodies) :
               (\A j \in Others(bodies, i) :
                   SeenBy(i)[j].position # bodies[i].position)
               => bodies'[i].total_force = VZero]_vars

\* an unpaused frame with G = 0 has moved two bodies of different positions
C3_Witness ==
    /\ G = 0
    /\ frames > 0
    /\ ~PAUSED
    /\ Len(bodies) = 2
    /\ bodies[1].name # bodies[2].name
    /\ bodies[2].velocity # VZero
    /\ \A i \in 1..2 : bodies[i].total_force = VZero

\* C4: for bodies at different positions and G > 0 the two forces sum to
\* zero and have the same magnitude, and with positive masses the force on A
\* points from A toward B.
C4_ForceAntisymmetric ==
    (probe.done /\ G > 0 /\ bodies[1].position # bodies[2].position) =>
       LET delta == VSub(bodies[2].position, bodies[1].position)
       IN  /\ VAdd(probe.ab, probe.ba) = VZero
           /\ magnitude(probe.ab) = magnitude(probe.ba)
           /\ (bodies[1].mass > 0 /\ bodies[2].mass > 0) =>
                 /\ Sgn(probe.ab.x) = Sgn(delta.x)
                 /\ Sgn(probe.ab.y) = Sgn(delta.y)

\* both forces of an oblique pair of positive masses have been computed
C4_Witness ==
    /\ probe.done
    /\ G > 0
    /\ bodies[1].mass > 0
    /\ bodies[2].mass > bodies[1].mass
    /\ bodies[2].position.x > bodies[1].position.x
    /\ bodies[2].position.y < bodies[1].position.y
    /\ probe.ab.x > 0
    /\ probe.ab.y < 0

\* C5: for two bodies at the same position calculate_force raises nothing
\* and returns a vector of magnitude m, 50 <= m < 200, whatever G and the
\* masses are.
C5_CoincidentForceInRange ==
    (probe.done /\ bodies[1].position = bodies[2].position) =>
       /\ ~calculate_force_raises(bodies[1], bodies[2])
       /\ ~calculate_force_raises(bodies[2], bodies[1])
       /\ \A f \in {probe.ab, probe.ba} :
             /\ f # VZero
             /\ Num(50) <= magnitude(f)
             /\ magnitude(f) < Num(200)

\* the forces of a coincident pair with G = 0 have been computed
C5_Witness ==
    /\ probe.done
    /\ bodies[1].position = bodies[2].position
    /\ G = 0
    /\ bodies[1].mass < 0
    /\ probe.ab # VZero
    /\ probe.ab # probe.ba

\* sum of position * mass over the entries 1..n, one coordinate at a time
RECURSIVE WeightedX(_, _)
WeightedX(bs, n) ==
    IF n = 0 THEN 0 ELSE WeightedX(bs, n - 1) + FMul(bs[n].position.x, bs[n].mass)

RECURSIVE WeightedY(_, _)
WeightedY(bs, n) ==
    IF n = 0 THEN 0 ELSE WeightedY(bs, n - 1) + FMul(bs[n].position.y, bs[n].mass)

RECURSIVE TotalMass(_, _)
TotalMass(bs, n) == IF n = 0 THEN 0 ELSE TotalMass(bs, n - 1) + bs[n].mass

\* C6: compute_barycenter raises no division by zero; it returns the origin
\* when the masses sum to 0, and otherwise the vector that, multiplied by the
\* total mass, gives the sum of position * mass (up to rounding).
C6_BarycenterGuarded ==
    probe.done =>
       LET n == Len(bodies)
           M == TotalMass(bodies, n)
           slack == Abs(M) \div Scale + 1
       IN  /\ ~probe.bary.raised
           /\ M = 0 => probe.bary.value = VZero
           /\ M # 0 =>
                /\ Abs(FMul(probe.bary.value.x, M) - WeightedX(bodies, n)) <= slack
                /\ Abs(FMul(probe.bary.value.y, M) - WeightedY(bodies, n)) <= slack

\* the barycenter of two bodies whose nonzero masses cancel has been computed
C6_Witness ==
    /\ probe.done
    /\ Len(bodies) = 2
    /\ bodies[1].mass > 0
    /\ bodies[1].mass + bodies[2].mass = 0
    /\ bodies[1].position # bodies[2].position
    /\ probe.bary = Return(VZero)

\* C7: in an unpaused frame the total_force of a body is the sum of one
\* calculate_force per other entry of the list, each entry as the sweep finds
\* it; an entry with the same attributes is another entry and is summed.
C7_SweepSkipsOnlySelf ==
    [][IntegratingFrame =>
         \A i \in 1..Len(bodies) :
            bodies'[i].total_force \in ForceSums(SeenBy(i), i, Others(bodies, i))]_vars

\* the first of two bodies with identical attributes has received the launch
\* force of the other in the first frame
C7_Witness ==
    /\ frames = 1
    /\ ~PAUSED
    /\ G = 0
    /\ Len(bodies) = 2
    /\ bodies[1].name = bodies[2].name
    /\ bodies[1].total_force \in random_polar_50_200

\* C8: an integrated body has acceleration total_force / mass; from rest it
\* moves to position + 0.5*a*T^2, and with a = 0 to position + velocity*T
\* with its velocity unchanged, T being the frame's delta_time for every body.
C8_IntegrationClosedForm ==
    [][IntegratingFrame =>
         \A i \in 1..Len(bodies) :
            LET a == VDiv(bodies'[i].total_force, bodies[i].mass)
                T == delta_time'
                half_aT2 == Vector2(RDiv(FMul(FMul(a.x, T), T), 2),
                                    RDiv(FMul(FMul(a.y, T), T), 2))
            IN  /\ bodies'[i].acceleration = a
                /\ bodies[i].velocity = VZero =>
                      VNear(bodies'[i].position, VAdd(bodies[i].position, half_aT2))
                /\ a = VZero =>
                      /\ bodies'[i].position =
                            VAdd(bodies[i].position, VMul(bodies[i].velocity, T))
                      /\ bodies'[i].velocity = bodies[i].velocity]_vars

\* body B, of mass 2 and at rest at the start, has been accelerated
C8_Witness ==
    /\ frames = 1
    /\ ~PAUSED
    /\ \E i \in 1..Len(bodies) :
          /\ bodies[i].name = "B"
          /\ bodies[i].acceleration # VZero
          /\ bodies[i].position # Vector2(Num(1), 0)

\* C9: every frame keeps the list's members and order and each body's mass,
\* name, radius, color and width; the bodies change only as the pause flag
\* and the frame time make them, whatever the other inputs are.
C9_BodiesKeepIdentity ==
    [][/\ Len(bodies') = Len(bodies)
       /\ \A i \in 1..Len(bodies) :
             /\ bodies'[i].name = bodies[i].name
             /\ bodies'[i].mass = bodies[i].mass
             /\ bodies'[i].radius = bodies[i].radius
             /\ bodies'[i].color = bodies[i].color
             /\ bodies'[i].width = bodies[i].width
       /\ bodies' \in UpdateBodies(bodies, 1, PAUSED', delta_time')]_vars

\* three bodies have been integrated and the camera, the zoom and the debug
\* flag have been changed by the inputs
C9_Witness ==
    /\ Len(bodies) = 3
    /\ integrations >= 1
    /\ camera_position # VZero
    /\ zoom # Num(1)
    /\ DEBUG
    /\ bodies[3].mass = Num(3)

\* C10: current_frame counts the frames in which the bodies were integrated
\* and elapsed_time sums the delta_time of those frames.
C10_CountersFollowIntegration ==
    /\ current_frame = integrations
    /\ elapsed_time = integrated_time

=============================================================================
